---- MODULE Spec2Model ----
(***************************************************************************)
(* Model of the go-monitor package: the process-wide handle (Init, Emit,   *)
(* Flush, Shutdown in monitor.go) and the asynchronous shipper             *)
(* (shipper.go): bounded intake channel, accumulation buffer, background   *)
(* loop with size/timer/flush/stop cases, and delivery of batches.         *)
(*                                                                         *)
(* Goroutines are modelled as processes with a program counter each.  A    *)
(* channel operation is one atomic step; the statements of one goroutine   *)
(* between two channel or atomic-pointer operations touch only state that  *)
(* goroutine owns and are merged into the step of the preceding operation. *)
(* A Go select with several ready cases picks any of them.  An unrecovered *)
(* panic (close of a closed channel) ends the whole process.               *)
(***************************************************************************)
EXTENDS Naturals, Sequences, FiniteSets

\* ---------------------------------------------------------------- bounds
NProducers == 2
NFlushers == 2
NCallers == 2
MaxShippers == 2
MaxEvents == 3
MaxBatchSize == 2

Producers == 1..NProducers
Flushers == 1..NFlushers
Callers == 1..NCallers
Shippers == 1..MaxShippers
EventIds == 1..MaxEvents

\* a nil *shipper
Nil == 0

\* a nil *Config (a stored Config always has a non-empty Service)
NilConfig ==
    [Service |-> "", Env |-> "", JobID |-> "", IngestURL |-> "", BatchSize |-> 0,
     DisableStdout |-> FALSE]

\* Config values Init is called with: one without Service, one without
\* IngestURL, and one with IngestURL for each batch size (0: not set)
Configs ==
    {[NilConfig EXCEPT !.JobID = "job", !.IngestURL = "url", !.BatchSize = 1],
     [NilConfig EXCEPT !.Service = "svc", !.JobID = "job", !.BatchSize = 1]}
    \cup {[NilConfig EXCEPT !.Service = "svc", !.JobID = "job", !.IngestURL = "url",
                             !.BatchSize = b] : b \in 0..MaxBatchSize}

\* Config values Init is called with where the events themselves are looked
\* at: without IngestURL, so that events only go to stdout
EventConfigs ==
    {NilConfig,
     [NilConfig EXCEPT !.Service = "svc"],
     [NilConfig EXCEPT !.Service = "svc", !.Env = "prod", !.JobID = "cfg-job"],
     [NilConfig EXCEPT !.Service = "svc", !.Env = "prod", !.JobID = "cfg-job",
                       !.DisableStdout = TRUE]}

VARIABLES
    globalConfig,   \* atomic.Pointer[Config]: Nil or the stored Config
    globalShipper,  \* atomic.Pointer[shipper]: Nil or a shipper
    allocated,      \* number of shippers newShipper has constructed
    cfg,            \* cfg[s]: the shipper's Config
    eventsCh,       \* eventsCh[s]: contents of the buffered intake channel
    events,         \* events[s]: the accumulation buffer
    stopCh,         \* stopCh[s]: TRUE when closed
    doneCh,         \* doneCh[s]: TRUE when closed
    runPc,          \* runPc[s]: position of the goroutine running s.run()
    batch,          \* batch[s]: the batch doFlush is delivering
    flushDone,      \* flushDone[s]: the done channel received from flushCh
    shipped,        \* shipped[s]: batches whose delivery attempt completed
    attempts,       \* attempts[s]: what each of these attempts sent and got
    accepted,       \* accepted[s]: events send() put on eventsCh[s]
    dropped,        \* events send() dropped with the diagnostic
    prev,           \* prev[s]: the oldShipper of the Init that built s
    stopSeen,       \* stopSeen[s]: accepted[s] when stop() was first called
    stopReturned,   \* the shippers on which a stop() call has returned
    nextEv,         \* number of events handed to send() so far
    ePc, eS,        \* Emit goroutines: position, loaded shipper
    fPc, fS, fDone, \* Flush goroutines: position, loaded shipper, done closed
    fSeen,          \* fSeen[f]: accepted[fS[f]] when flush() was called
    fLive,          \* fLive[f]: the loop of fS[f] ran when flush() was called
    fBuf,           \* fBuf[f]: the events in the buffer when flush() was called
    cPc, cOld, cCfg, cNew, \* Init/Shutdown goroutines
    panicked,       \* the process died of an unrecovered panic
    quota,          \* how many shippers and events this run may create, which
                    \* results the ingest endpoint gives and which events do
                    \* not serialize
    ctx,            \* the context.Context the application has built
    call,           \* the Emit or Middleware call in progress and its arguments
    event,          \* the Event newEvent returned to Emit
    stdout,         \* the record Emit printed: a set of <<key, value>> pairs
    handlerCtx,     \* the context Middleware passed to the next handler
    respHeader      \* the response headers Middleware set

shipperVars ==
    <<allocated, cfg, eventsCh, events, stopCh, doneCh, runPc, batch,
      flushDone, shipped, attempts, prev>>
emitVars == <<ePc, eS, nextEv, accepted, dropped>>
flushVars == <<fPc, fS, fDone, fSeen, fLive, fBuf>>
callerVars == <<cPc, cOld, cCfg, cNew, stopSeen, stopReturned>>
dataVars == <<ctx, call, event, stdout, handlerCtx, respHeader>>
vars ==
    <<globalConfig, globalShipper, shipperVars, emitVars, flushVars,
      callerVars, panicked, quota, dataVars>>

\* context.Background(): no value is set ("" is what JobID, RequestID,
\* TraceID and UserID return for a missing value)
EmptyContext == [JobID |-> "", RequestID |-> "", TraceID |-> "", UserID |-> ""]

\* an http.Header without X-Request-Id and X-Trace-Id
NoHeader == [RequestID |-> "", TraceID |-> ""]

\* the zero Event
NoEvent ==
    [Timestamp |-> "", Service |-> "", Env |-> "", JobID |-> "", RequestID |-> "",
     TraceID |-> "", Name |-> "", Level |-> "", Data |-> ""]

\* no Emit or Middleware call is in progress
NoCall == [op |-> "none", cfg |-> NilConfig, opts |-> <<>>, data |-> "", header |-> NoHeader]

\* ---------------------------------------------------------------- helpers
Range(q) == {q[i] : i \in 1..Len(q)}

\* make(chan Event, cfg.BatchSize*2)
Capacity(s) == cfg[s].BatchSize * 2

\* the events of all batches in a sequence of batches
RECURSIVE Flatten(_)
Flatten(bs) == IF bs = <<>> THEN <<>> ELSE Head(bs) \o Flatten(Tail(bs))

\* the status of an attempt that got no response
NoStatus == 0

\* client.Do returned an error
TransportError == [err |-> TRUE, status |-> NoStatus]

\* client.Do returned a response with this status code
Response(code) == [err |-> FALSE, status |-> code]

\* doFlush returned before it made a request
NoRequest == [err |-> FALSE, status |-> NoStatus]

\* the outcomes of client.Do: an error, or a response of one of the classes
\* 2xx, 3xx, 4xx and 5xx
Results == {TransportError, Response(200), Response(304), Response(500)}

\* the state of the process before any call; P, F and C are the goroutines
\* that will call Emit, Flush and Init/Shutdown, results are the outcomes the
\* transport may have and bad the events whose json.Marshal fails
InitScenario(P, F, C, nShippers, nEvents, results, bad) ==
    /\ globalConfig = NilConfig
    /\ globalShipper = Nil
    /\ allocated = 0
    /\ cfg = [s \in Shippers |-> NilConfig]
    /\ eventsCh = [s \in Shippers |-> <<>>]
    /\ events = [s \in Shippers |-> <<>>]
    /\ stopCh = [s \in Shippers |-> FALSE]
    /\ doneCh = [s \in Shippers |-> FALSE]
    /\ runPc = [s \in Shippers |-> "none"]
    /\ batch = [s \in Shippers |-> <<>>]
    /\ flushDone = [s \in Shippers |-> Nil]
    /\ shipped = [s \in Shippers |-> <<>>]
    /\ attempts = [s \in Shippers |-> <<>>]
    /\ accepted = [s \in Shippers |-> {}]
    /\ dropped = {}
    /\ prev = [s \in Shippers |-> Nil]
    /\ stopSeen = [s \in Shippers |-> {}]
    /\ stopReturned = {}
    /\ nextEv = 0
    /\ ePc = [p \in Producers |-> IF p \in P THEN "idle" ELSE "off"]
    /\ eS = [p \in Producers |-> Nil]
    /\ fPc = [f \in Flushers |-> IF f \in F THEN "idle" ELSE "off"]
    /\ fS = [f \in Flushers |-> Nil]
    /\ fDone = [f \in Flushers |-> FALSE]
    /\ fSeen = [f \in Flushers |-> {}]
    /\ fLive = [f \in Flushers |-> FALSE]
    /\ fBuf = [f \in Flushers |-> {}]
    /\ cPc = [c \in Callers |-> IF c \in C THEN "idle" ELSE "off"]
    /\ cOld = [c \in Callers |-> Nil]
    /\ cCfg = [c \in Callers |-> NilConfig]
    /\ cNew = [c \in Callers |-> Nil]
    /\ panicked = FALSE
    /\ quota = [shippers |-> nShippers, events |-> nEvents,
                results |-> results, bad |-> bad]
    /\ ctx = EmptyContext
    /\ call = NoCall
    /\ event = NoEvent
    /\ stdout = {}
    /\ handlerCtx = EmptyContext
    /\ respHeader = NoHeader

\* a run in which every event serializes and every request is answered 200
InitWith(P, F, C, nShippers, nEvents) ==
    InitScenario(P, F, C, nShippers, nEvents, {Response(200)}, {})

\* any number of producers and flushers, Init and Shutdown called from one
\* goroutine
Init == InitWith(Producers, Flushers, {1}, 1, MaxEvents)

\* Init and Shutdown called from several goroutines, next to one goroutine
\* that calls Emit or one that calls Flush
InitLifecycle ==
    \/ InitWith({1}, {}, Callers, MaxShippers, 1)
    \/ InitWith({}, {1}, Callers, MaxShippers, 0)

\* ------------------------------------------------------------ shipper.go
\* mutant of TakeBatch: the batch is handed over but the buffer is kept
TakeBatch_KeepBuffer(s, buf) ==
    /\ batch' = [batch EXCEPT ![s] = buf]
    /\ events' = events

\* doFlush, lines 122-125: the buffer becomes the batch handed to the
\* transport and a new empty buffer takes its place
TakeBatch(s, buf) ==
    /\ batch' = [batch EXCEPT ![s] = buf]
    /\ events' = [events EXCEPT ![s] = <<>>]

\* mutant of Send: the event is queued whatever the length of the queue
Send_Unbounded(p) ==
    /\ ~panicked
    /\ ePc[p] = "send"
    /\ nextEv' = nextEv + 1
    /\ eventsCh' = [eventsCh EXCEPT ![eS[p]] = Append(@, nextEv + 1)]
    /\ accepted' = [accepted EXCEPT ![eS[p]] = @ \cup {nextEv + 1}]
    /\ ePc' = [ePc EXCEPT ![p] = "idle"]
    /\ eS' = [eS EXCEPT ![p] = Nil]
    /\ UNCHANGED <<globalConfig, globalShipper, allocated, cfg, events, stopCh,
                   doneCh, runPc, batch, flushDone, shipped, attempts, prev, dropped,
                   flushVars, callerVars, panicked, quota, dataVars>>

\* mutant of Send: a plain channel send, which blocks while the channel is full
Send_Blocking(p) ==
    /\ ~panicked
    /\ ePc[p] = "send"
    /\ Len(eventsCh[eS[p]]) < Capacity(eS[p])
    /\ nextEv' = nextEv + 1
    /\ eventsCh' = [eventsCh EXCEPT ![eS[p]] = Append(@, nextEv + 1)]
    /\ accepted' = [accepted EXCEPT ![eS[p]] = @ \cup {nextEv + 1}]
    /\ ePc' = [ePc EXCEPT ![p] = "idle"]
    /\ eS' = [eS EXCEPT ![p] = Nil]
    /\ UNCHANGED <<globalConfig, globalShipper, allocated, cfg, events, stopCh,
                   doneCh, runPc, batch, flushDone, shipped, attempts, prev, dropped,
                   flushVars, callerVars, panicked, quota, dataVars>>

\* send: a non-blocking channel send, the event is dropped when the
\* channel is full.  Events are numbered in the order send() is entered.
Send(p) ==
    /\ ~panicked
    /\ ePc[p] = "send"
    /\ nextEv' = nextEv + 1
    /\ LET s == eS[p]
           e == nextEv + 1
       IN  IF Len(eventsCh[s]) < Capacity(s)
           THEN /\ eventsCh' = [eventsCh EXCEPT ![s] = Append(@, e)]
                /\ accepted' = [accepted EXCEPT ![s] = @ \cup {e}]
                /\ UNCHANGED dropped
           ELSE /\ dropped' = dropped \cup {e}
                /\ UNCHANGED <<eventsCh, accepted>>
    /\ ePc' = [ePc EXCEPT ![p] = "idle"]
    /\ eS' = [eS EXCEPT ![p] = Nil]
    /\ UNCHANGED <<globalConfig, globalShipper, allocated, cfg, events, stopCh,
                   doneCh, runPc, batch, flushDone, shipped, attempts, prev,
                   flushVars, callerVars, panicked, quota, dataVars>>

\* mutant of RunEvent: the flush comes when the buffer exceeds BatchSize
RunEvent_Late(s) ==
    /\ ~panicked
    /\ runPc[s] = "select"
    /\ eventsCh[s] # <<>>
    /\ eventsCh' = [eventsCh EXCEPT ![s] = Tail(@)]
    /\ LET buf == Append(events[s], Head(eventsCh[s]))
       IN  IF Len(buf) > cfg[s].BatchSize
           THEN /\ TakeBatch(s, buf)
                /\ runPc' = [runPc EXCEPT ![s] = "deliver_loop"]
           ELSE /\ events' = [events EXCEPT ![s] = buf]
                /\ UNCHANGED <<batch, runPc>>
    /\ UNCHANGED <<globalConfig, globalShipper, allocated, cfg, stopCh, doneCh,
                   flushDone, shipped, attempts, prev, emitVars, flushVars, callerVars,
                   panicked, quota, dataVars>>

\* run, case event := <-s.eventsCh: append, and flush when the buffer has
\* reached BatchSize
RunEvent(s) ==
    /\ ~panicked
    /\ runPc[s] = "select"
    /\ eventsCh[s] # <<>>
    /\ eventsCh' = [eventsCh EXCEPT ![s] = Tail(@)]
    /\ LET buf == Append(events[s], Head(eventsCh[s]))
       IN  IF Len(buf) >= cfg[s].BatchSize
           THEN /\ TakeBatch(s, buf)
                /\ runPc' = [runPc EXCEPT ![s] = "deliver_loop"]
           ELSE /\ events' = [events EXCEPT ![s] = buf]
                /\ UNCHANGED <<batch, runPc>>
    /\ UNCHANGED <<globalConfig, globalShipper, allocated, cfg, stopCh, doneCh,
                   flushDone, shipped, attempts, prev, emitVars, flushVars, callerVars,
                   panicked, quota, dataVars>>

\* mutant of RunTick: the tick case does not flush
RunTick_NoFlush(s) ==
    /\ ~panicked
    /\ runPc[s] = "select"
    /\ UNCHANGED vars

\* mutant of RunTick: doFlush without the check for an empty buffer
RunTick_EmptyBatch(s) ==
    /\ ~panicked
    /\ runPc[s] = "select"
    /\ TakeBatch(s, events[s])
    /\ runPc' = [runPc EXCEPT ![s] = "deliver_loop"]
    /\ UNCHANGED <<globalConfig, globalShipper, allocated, cfg, eventsCh,
                   stopCh, doneCh, flushDone, shipped, attempts, prev, emitVars,
                   flushVars, callerVars, panicked, quota, dataVars>>

\* run, case <-ticker.C: doFlush, which returns at once on an empty buffer
RunTick(s) ==
    /\ ~panicked
    /\ runPc[s] = "select"
    /\ IF events[s] = <<>>
       THEN UNCHANGED <<events, batch, runPc>>
       ELSE /\ TakeBatch(s, events[s])
            /\ runPc' = [runPc EXCEPT ![s] = "deliver_loop"]
    /\ UNCHANGED <<globalConfig, globalShipper, allocated, cfg, eventsCh,
                   stopCh, doneCh, flushDone, shipped, attempts, prev, emitVars,
                   flushVars, callerVars, panicked, quota, dataVars>>

\* mutant of RunFlush: the loop closes done before it calls doFlush
RunFlush_CloseFirst(s, f) ==
    /\ ~panicked
    /\ runPc[s] = "select"
    /\ fPc[f] = "select"
    /\ fS[f] = s
    /\ fPc' = [fPc EXCEPT ![f] = "wait"]
    /\ fDone' = [fDone EXCEPT ![f] = TRUE]
    /\ IF events[s] = <<>>
       THEN UNCHANGED <<events, batch, runPc>>
       ELSE /\ TakeBatch(s, events[s])
            /\ runPc' = [runPc EXCEPT ![s] = "deliver_loop"]
    /\ UNCHANGED <<globalConfig, globalShipper, allocated, cfg, eventsCh,
                   stopCh, doneCh, flushDone, shipped, attempts, prev, emitVars, fS, fSeen,
                   fLive, fBuf, callerVars, panicked, quota, dataVars>>

\* flush, case s.flushCh <- done, together with run, case done := <-s.flushCh:
\* flushCh is unbuffered, so the send and the receive are one step; the loop
\* then calls doFlush and closes done
RunFlush(s, f) ==
    /\ ~panicked
    /\ runPc[s] = "select"
    /\ fPc[f] = "select"
    /\ fS[f] = s
    /\ fPc' = [fPc EXCEPT ![f] = "wait"]
    /\ IF events[s] = <<>>
       THEN /\ fDone' = [fDone EXCEPT ![f] = TRUE]
            /\ UNCHANGED <<events, batch, runPc, flushDone>>
       ELSE /\ TakeBatch(s, events[s])
            /\ runPc' = [runPc EXCEPT ![s] = "deliver_flush"]
            /\ flushDone' = [flushDone EXCEPT ![s] = f]
            /\ UNCHANGED fDone
    /\ UNCHANGED <<globalConfig, globalShipper, allocated, cfg, eventsCh,
                   stopCh, doneCh, shipped, attempts, prev, emitVars, fS, fSeen, fLive,
                   fBuf, callerVars, panicked, quota, dataVars>>

\* mutant of RunStop: the select of the loop has no stopCh case
RunStop_NoCase(s) ==
    /\ FALSE
    /\ UNCHANGED vars

\* run, case <-s.stopCh: enter the drain loop
RunStop(s) ==
    /\ ~panicked
    /\ runPc[s] = "select"
    /\ stopCh[s]
    /\ runPc' = [runPc EXCEPT ![s] = "drain"]
    /\ UNCHANGED <<globalConfig, globalShipper, allocated, cfg, eventsCh,
                   events, stopCh, doneCh, batch, flushDone, shipped, attempts, prev,
                   emitVars, flushVars, callerVars, panicked, quota, dataVars>>

\* mutant of RunDrain: after the final flush the loop goes back to its select
RunDrain_Resume(s) ==
    /\ ~panicked
    /\ runPc[s] = "drain"
    /\ IF eventsCh[s] # <<>>
       THEN /\ eventsCh' = [eventsCh EXCEPT ![s] = Tail(@)]
            /\ events' = [events EXCEPT ![s] = Append(@, Head(eventsCh[s]))]
            /\ UNCHANGED <<batch, runPc, doneCh>>
       ELSE IF events[s] = <<>>
       THEN /\ runPc' = [runPc EXCEPT ![s] = "exited"]
            /\ doneCh' = [doneCh EXCEPT ![s] = TRUE]
            /\ UNCHANGED <<eventsCh, events, batch>>
       ELSE /\ TakeBatch(s, events[s])
            /\ runPc' = [runPc EXCEPT ![s] = "deliver_loop"]
            /\ UNCHANGED <<eventsCh, doneCh>>
    /\ UNCHANGED <<globalConfig, globalShipper, allocated, cfg, stopCh,
                   flushDone, shipped, attempts, prev, emitVars, flushVars, callerVars,
                   panicked, quota, dataVars>>

\* mutant of RunDrain: a drained event is put in front of the buffer
RunDrain_Prepend(s) ==
    /\ ~panicked
    /\ runPc[s] = "drain"
    /\ IF eventsCh[s] # <<>>
       THEN /\ eventsCh' = [eventsCh EXCEPT ![s] = Tail(@)]
            /\ events' = [events EXCEPT ![s] = <<Head(eventsCh[s])>> \o @]
            /\ UNCHANGED <<batch, runPc, doneCh>>
       ELSE IF events[s] = <<>>
       THEN /\ runPc' = [runPc EXCEPT ![s] = "exited"]
            /\ doneCh' = [doneCh EXCEPT ![s] = TRUE]
            /\ UNCHANGED <<eventsCh, events, batch>>
       ELSE /\ TakeBatch(s, events[s])
            /\ runPc' = [runPc EXCEPT ![s] = "deliver_final"]
            /\ UNCHANGED <<eventsCh, doneCh>>
    /\ UNCHANGED <<globalConfig, globalShipper, allocated, cfg, stopCh,
                   flushDone, shipped, attempts, prev, emitVars, flushVars, callerVars,
                   panicked, quota, dataVars>>

\* mutant of RunDrain: the final flush without draining the channel
RunDrain_NoDrain(s) ==
    /\ ~panicked
    /\ runPc[s] = "drain"
    /\ IF events[s] = <<>>
       THEN /\ runPc' = [runPc EXCEPT ![s] = "exited"]
            /\ doneCh' = [doneCh EXCEPT ![s] = TRUE]
            /\ UNCHANGED <<events, batch>>
       ELSE /\ TakeBatch(s, events[s])
            /\ runPc' = [runPc EXCEPT ![s] = "deliver_final"]
            /\ UNCHANGED doneCh
    /\ UNCHANGED <<globalConfig, globalShipper, allocated, cfg, eventsCh, stopCh,
                   flushDone, shipped, attempts, prev, emitVars, flushVars, callerVars,
                   panicked, quota, dataVars>>

\* run, the drain loop: one iteration of the inner select; its default case
\* does the final doFlush and returns (the deferred close(s.doneCh) runs)
RunDrain(s) ==
    /\ ~panicked
    /\ runPc[s] = "drain"
    /\ IF eventsCh[s] # <<>>
       THEN /\ eventsCh' = [eventsCh EXCEPT ![s] = Tail(@)]
            /\ events' = [events EXCEPT ![s] = Append(@, Head(eventsCh[s]))]
            /\ UNCHANGED <<batch, runPc, doneCh>>
       ELSE IF events[s] = <<>>
       THEN /\ runPc' = [runPc EXCEPT ![s] = "exited"]
            /\ doneCh' = [doneCh EXCEPT ![s] = TRUE]
            /\ UNCHANGED <<eventsCh, events, batch>>
       ELSE /\ TakeBatch(s, events[s])
            /\ runPc' = [runPc EXCEPT ![s] = "deliver_final"]
            /\ UNCHANGED <<eventsCh, doneCh>>
    /\ UNCHANGED <<globalConfig, globalShipper, allocated, cfg, stopCh,
                   flushDone, shipped, attempts, prev, emitVars, flushVars, callerVars,
                   panicked, quota, dataVars>>

\* the newline that ends a record of the payload (events are numbered from 1)
NL == 0

\* json.Marshal(event) succeeds
Marshals(e) == e \notin quota.bad

\* mutant of Payload: the payload ends at the first event that does not serialize
RECURSIVE Payload_StopAtFailure(_)
Payload_StopAtFailure(b) ==
    IF b = <<>> \/ ~Marshals(Head(b)) THEN <<>>
    ELSE <<Head(b), NL>> \o Payload_StopAtFailure(Tail(b))

\* doFlush, lines 127-137: the NDJSON payload of a batch, the record of each
\* event that serializes followed by a newline; an event that does not
\* serialize is skipped
RECURSIVE Payload(_)
Payload(b) ==
    IF b = <<>> THEN <<>>
    ELSE (IF Marshals(Head(b)) THEN <<Head(b), NL>> ELSE <<>>)
             \o Payload(Tail(b))

\* doFlush, lines 130-133: one line on stderr for each event that does not
\* serialize
RECURSIVE MarshalDiagnostics(_)
MarshalDiagnostics(b) ==
    IF b = <<>> THEN <<>>
    ELSE (IF Marshals(Head(b)) THEN <<>> ELSE <<"failed to marshal event">>)
             \o MarshalDiagnostics(Tail(b))

\* doFlush, lines 177-189: the line on stderr for the outcome r of client.Do
ResultDiagnostics(r) ==
    IF r.err THEN <<"failed to ship events">>
    ELSE IF r.status >= 400 THEN <<"ingest returned status">>
    ELSE <<>>

\* doFlush, lines 127-190, for the taken batch b with outcome r of client.Do:
\* what the attempt sent, what it got and what it wrote to stderr; no request
\* is made for an empty payload
Attempt(b, r) ==
    IF Payload(b) = <<>>
    THEN [batch |-> b, payload |-> <<>>, sent |-> FALSE, result |-> NoRequest,
          stderr |-> MarshalDiagnostics(b)]
    ELSE [batch |-> b, payload |-> Payload(b), sent |-> TRUE, result |-> r,
          stderr |-> MarshalDiagnostics(b) \o ResultDiagnostics(r)]

\* mutant of Deliver: the batch of a failed attempt is put back in the buffer
Deliver_Requeue(s) ==
    /\ ~panicked
    /\ runPc[s] \in {"deliver_loop", "deliver_flush", "deliver_final"}
    /\ \E r \in quota.results :
          /\ attempts' = [attempts EXCEPT ![s] = Append(@, Attempt(batch[s], r))]
          /\ events' = [events EXCEPT ![s] =
                           IF ResultDiagnostics(r) # <<>> THEN batch[s] \o @ ELSE @]
    /\ shipped' = [shipped EXCEPT ![s] = Append(@, batch[s])]
    /\ batch' = [batch EXCEPT ![s] = <<>>]
    /\ runPc' = [runPc EXCEPT ![s] =
                    IF @ = "deliver_final" THEN "exited" ELSE "select"]
    /\ doneCh' = [doneCh EXCEPT ![s] = (runPc[s] = "deliver_final") \/ @]
    /\ IF runPc[s] = "deliver_flush"
       THEN /\ fDone' = [fDone EXCEPT ![flushDone[s]] = TRUE]
            /\ flushDone' = [flushDone EXCEPT ![s] = Nil]
       ELSE UNCHANGED <<fDone, flushDone>>
    /\ UNCHANGED <<globalConfig, globalShipper, allocated, cfg, eventsCh,
                   stopCh, prev, emitVars, fPc, fS, fSeen, fLive, fBuf,
                   callerVars, panicked, quota, dataVars>>

\* doFlush, lines 127-190: the delivery attempt for the taken batch ends
\* (whatever its outcome the batch is gone), and run continues after the
\* call: back to the select, close(done) for a flush request, or return.
\* The gzip writer writes to memory and the URL of the request is the same
\* for every batch; their error returns are not modelled.
Deliver(s) ==
    /\ ~panicked
    /\ runPc[s] \in {"deliver_loop", "deliver_flush", "deliver_final"}
    /\ \E r \in quota.results :
          attempts' = [attempts EXCEPT ![s] = Append(@, Attempt(batch[s], r))]
    /\ shipped' = [shipped EXCEPT ![s] = Append(@, batch[s])]
    /\ batch' = [batch EXCEPT ![s] = <<>>]
    /\ runPc' = [runPc EXCEPT ![s] =
                    IF @ = "deliver_final" THEN "exited" ELSE "select"]
    /\ doneCh' = [doneCh EXCEPT ![s] = (runPc[s] = "deliver_final") \/ @]
    /\ IF runPc[s] = "deliver_flush"
       THEN /\ fDone' = [fDone EXCEPT ![flushDone[s]] = TRUE]
            /\ flushDone' = [flushDone EXCEPT ![s] = Nil]
       ELSE UNCHANGED <<fDone, flushDone>>
    /\ UNCHANGED <<globalConfig, globalShipper, allocated, cfg, eventsCh,
                   events, stopCh, prev, emitVars, fPc, fS, fSeen, fLive, fBuf,
                   callerVars,
                   panicked, quota, dataVars>>

\* mutant of FlushStopped: flush without the stopCh case
FlushStopped_NoCase(f) ==
    /\ FALSE
    /\ UNCHANGED vars

\* flush, case <-s.stopCh: the stop signal is observed, flush returns
FlushStopped(f) ==
    /\ ~panicked
    /\ fPc[f] = "select"
    /\ stopCh[fS[f]]
    /\ fPc' = [fPc EXCEPT ![f] = "idle"]
    /\ fS' = [fS EXCEPT ![f] = Nil]
    /\ fSeen' = [fSeen EXCEPT ![f] = {}]
    /\ fLive' = [fLive EXCEPT ![f] = FALSE]
    /\ fBuf' = [fBuf EXCEPT ![f] = {}]
    /\ UNCHANGED <<globalConfig, globalShipper, shipperVars, emitVars, fDone,
                   callerVars, panicked, quota, dataVars>>

\* flush, <-done: returns once the loop has closed done
FlushReturn(f) ==
    /\ ~panicked
    /\ fPc[f] = "wait"
    /\ fDone[f]
    /\ fPc' = [fPc EXCEPT ![f] = "idle"]
    /\ fS' = [fS EXCEPT ![f] = Nil]
    /\ fDone' = [fDone EXCEPT ![f] = FALSE]
    /\ fSeen' = [fSeen EXCEPT ![f] = {}]
    /\ fLive' = [fLive EXCEPT ![f] = FALSE]
    /\ fBuf' = [fBuf EXCEPT ![f] = {}]
    /\ UNCHANGED <<globalConfig, globalShipper, shipperVars, emitVars,
                   callerVars, panicked, quota, dataVars>>

\* ------------------------------------------------------------ monitor.go
DefaultBatchSize == 200

\* ids.go, generateUUID: the values a random UUID can take (never "")
GeneratedIds == {"uuid-1", "uuid-2"}

\* Init, "Apply defaults": an empty JobID becomes the generated id, a
\* BatchSize <= 0 becomes 200
ApplyDefaults(c0, id) ==
    [c0 EXCEPT !.JobID = IF @ = "" THEN id ELSE @,
               !.BatchSize = IF @ <= 0 THEN DefaultBatchSize ELSE @]

\* newShipper: a fresh shipper with empty channel and buffer, not started
NewShipper(s, c0, old) ==
    /\ allocated' = s
    /\ cfg' = [cfg EXCEPT ![s] = c0]
    /\ runPc' = [runPc EXCEPT ![s] = "new"]
    /\ prev' = [prev EXCEPT ![s] = old]

\* Init calls in progress that will construct a shipper
Building == {c \in Callers : cPc[c] \in {"init_close", "init_wait", "init_cfg", "init_ship"}
                              /\ cCfg[c].IngestURL # ""}

\* mutant of InitBegin: the old shipper is not stopped
InitBegin_NoStop(c, c0) ==
    /\ ~panicked
    /\ cPc[c] = "idle"
    /\ (c0.Service # "" /\ c0.IngestURL # "")
           => allocated + Cardinality(Building) < quota.shippers
    /\ IF c0.Service = ""
       THEN /\ cCfg' = [cCfg EXCEPT ![c] = c0]
            /\ cPc' = [cPc EXCEPT ![c] = "init_err"]
            /\ UNCHANGED cOld
       ELSE /\ \E id \in GeneratedIds :
                   cCfg' = [cCfg EXCEPT ![c] = ApplyDefaults(c0, id)]
            /\ cOld' = [cOld EXCEPT ![c] = globalShipper]
            /\ cPc' = [cPc EXCEPT ![c] = "init_cfg"]
    /\ UNCHANGED <<globalConfig, globalShipper, shipperVars, emitVars,
                   flushVars, cNew, stopSeen, stopReturned, panicked, quota, dataVars>>

\* mutant of InitBegin: the Service check is missing
InitBegin_NoValidation(c, c0) ==
    /\ ~panicked
    /\ cPc[c] = "idle"
    /\ c0.IngestURL # "" => allocated + Cardinality(Building) < quota.shippers
    /\ \E id \in GeneratedIds : cCfg' = [cCfg EXCEPT ![c] = ApplyDefaults(c0, id)]
    /\ cOld' = [cOld EXCEPT ![c] = globalShipper]
    /\ cPc' = [cPc EXCEPT ![c] =
                  IF globalShipper # Nil THEN "init_close" ELSE "init_cfg"]
    /\ UNCHANGED <<globalConfig, globalShipper, shipperVars, emitVars,
                   flushVars, cNew, stopSeen, stopReturned, panicked, quota, dataVars>>

\* Init, lines 58-77: validation, defaults and the load of the old shipper
InitBegin(c, c0) ==
    /\ ~panicked
    /\ cPc[c] = "idle"
    /\ (c0.Service # "" /\ c0.IngestURL # "")
           => allocated + Cardinality(Building) < quota.shippers
    /\ IF c0.Service = ""
       THEN /\ cCfg' = [cCfg EXCEPT ![c] = c0]
            /\ cPc' = [cPc EXCEPT ![c] = "init_err"]
            /\ UNCHANGED cOld
       ELSE /\ \E id \in GeneratedIds :
                   cCfg' = [cCfg EXCEPT ![c] = ApplyDefaults(c0, id)]
            /\ cOld' = [cOld EXCEPT ![c] = globalShipper]
            /\ cPc' = [cPc EXCEPT ![c] =
                          IF globalShipper # Nil THEN "init_close" ELSE "init_cfg"]
    /\ UNCHANGED <<globalConfig, globalShipper, shipperVars, emitVars,
                   flushVars, cNew, stopSeen, stopReturned, panicked, quota, dataVars>>

\* Init, line 60: return ErrServiceRequired
InitFail(c) ==
    /\ ~panicked
    /\ cPc[c] = "init_err"
    /\ cPc' = [cPc EXCEPT ![c] = "idle"]
    /\ cCfg' = [cCfg EXCEPT ![c] = NilConfig]
    /\ UNCHANGED <<globalConfig, globalShipper, shipperVars, emitVars,
                   flushVars, cOld, cNew, stopSeen, stopReturned, panicked, quota,
                   dataVars>>

\* stop, close(s.stopCh): closing a closed channel panics
StopClose(c) ==
    /\ ~panicked
    /\ cPc[c] \in {"init_close", "shut_close"}
    /\ LET s == cOld[c]
       IN  IF stopCh[s]
           THEN /\ panicked' = TRUE
                /\ UNCHANGED <<stopCh, stopSeen, cPc>>
           ELSE /\ stopCh' = [stopCh EXCEPT ![s] = TRUE]
                /\ stopSeen' = [stopSeen EXCEPT ![s] = accepted[s]]
                /\ cPc' = [cPc EXCEPT ![c] =
                              IF @ = "init_close" THEN "init_wait" ELSE "shut_wait"]
                /\ UNCHANGED panicked
    /\ UNCHANGED <<globalConfig, globalShipper, allocated, cfg, eventsCh,
                   events, doneCh, runPc, batch, flushDone, shipped, attempts, prev,
                   emitVars, flushVars, cOld, cCfg, cNew, stopReturned, quota, dataVars>>

\* mutant of StopWait: stop returns without waiting for doneCh
StopWait_NoWait(c) ==
    /\ ~panicked
    /\ cPc[c] \in {"init_wait", "shut_wait"}
    /\ cPc' = [cPc EXCEPT ![c] = IF @ = "init_wait" THEN "init_cfg" ELSE "shut_store"]
    /\ stopReturned' = stopReturned \cup {cOld[c]}
    /\ UNCHANGED <<globalConfig, globalShipper, shipperVars, emitVars,
                   flushVars, cOld, cCfg, cNew, stopSeen, panicked, quota, dataVars>>

\* stop, <-s.doneCh: returns once the loop has exited
StopWait(c) ==
    /\ ~panicked
    /\ cPc[c] \in {"init_wait", "shut_wait"}
    /\ doneCh[cOld[c]]
    /\ cPc' = [cPc EXCEPT ![c] = IF @ = "init_wait" THEN "init_cfg" ELSE "shut_store"]
    /\ stopReturned' = stopReturned \cup {cOld[c]}
    /\ UNCHANGED <<globalConfig, globalShipper, shipperVars, emitVars,
                   flushVars, cOld, cCfg, cNew, stopSeen, panicked, quota, dataVars>>

\* Init, globalConfig.Store(&cfg)
InitStoreConfig(c) ==
    /\ ~panicked
    /\ cPc[c] = "init_cfg"
    /\ globalConfig' = cCfg[c]
    /\ cPc' = [cPc EXCEPT ![c] = "init_ship"]
    /\ UNCHANGED <<globalShipper, shipperVars, emitVars, flushVars, cOld,
                   cCfg, cNew, stopSeen, stopReturned, panicked, quota, dataVars>>

\* mutant of InitStoreShipper: without IngestURL the handle is left as it is
InitStoreShipper_KeepOld(c) ==
    /\ ~panicked
    /\ cPc[c] = "init_ship"
    /\ IF cCfg[c].IngestURL # ""
       THEN /\ NewShipper(allocated + 1, cCfg[c], cOld[c])
            /\ globalShipper' = allocated + 1
            /\ cNew' = [cNew EXCEPT ![c] = allocated + 1]
            /\ cPc' = [cPc EXCEPT ![c] = "init_start"]
            /\ UNCHANGED <<cOld, cCfg>>
       ELSE /\ cPc' = [cPc EXCEPT ![c] = "idle"]
            /\ cOld' = [cOld EXCEPT ![c] = Nil]
            /\ cCfg' = [cCfg EXCEPT ![c] = NilConfig]
            /\ UNCHANGED <<globalShipper, allocated, cfg, runPc, prev, cNew>>
    /\ UNCHANGED <<globalConfig, eventsCh, events, stopCh, doneCh, batch,
                   flushDone, shipped, attempts, emitVars, flushVars, stopSeen, stopReturned,
                   panicked, quota, dataVars>>

\* Init, lines 83-89: newShipper and globalShipper.Store(s), or Store(nil)
InitStoreShipper(c) ==
    /\ ~panicked
    /\ cPc[c] = "init_ship"
    /\ IF cCfg[c].IngestURL # ""
       THEN /\ NewShipper(allocated + 1, cCfg[c], cOld[c])
            /\ globalShipper' = allocated + 1
            /\ cNew' = [cNew EXCEPT ![c] = allocated + 1]
            /\ cPc' = [cPc EXCEPT ![c] = "init_start"]
            /\ UNCHANGED <<cOld, cCfg>>
       ELSE /\ globalShipper' = Nil
            /\ cPc' = [cPc EXCEPT ![c] = "idle"]
            /\ cOld' = [cOld EXCEPT ![c] = Nil]
            /\ cCfg' = [cCfg EXCEPT ![c] = NilConfig]
            /\ UNCHANGED <<allocated, cfg, runPc, prev, cNew>>
    /\ UNCHANGED <<globalConfig, eventsCh, events, stopCh, doneCh, batch,
                   flushDone, shipped, attempts, emitVars, flushVars, stopSeen, stopReturned, panicked, quota, dataVars>>

\* start: go s.run(); Init then returns nil
Start(c) ==
    /\ ~panicked
    /\ cPc[c] = "init_start"
    /\ runPc' = [runPc EXCEPT ![cNew[c]] = "select"]
    /\ cPc' = [cPc EXCEPT ![c] = "idle"]
    /\ cOld' = [cOld EXCEPT ![c] = Nil]
    /\ cCfg' = [cCfg EXCEPT ![c] = NilConfig]
    /\ cNew' = [cNew EXCEPT ![c] = Nil]
    /\ UNCHANGED <<globalConfig, globalShipper, allocated, cfg, eventsCh,
                   events, stopCh, doneCh, batch, flushDone, shipped, attempts, prev,
                   emitVars, flushVars, stopSeen, stopReturned, panicked, quota, dataVars>>

\* Shutdown, globalShipper.Load(): nothing to do without a shipper
ShutdownBegin(c) ==
    /\ ~panicked
    /\ cPc[c] = "idle"
    /\ IF globalShipper = Nil
       THEN UNCHANGED <<cPc, cOld>>
       ELSE /\ cOld' = [cOld EXCEPT ![c] = globalShipper]
            /\ cPc' = [cPc EXCEPT ![c] = "shut_close"]
    /\ UNCHANGED <<globalConfig, globalShipper, shipperVars, emitVars,
                   flushVars, cCfg, cNew, stopSeen, stopReturned, panicked, quota, dataVars>>

\* Shutdown, globalShipper.Store(nil) after stop has returned
ShutdownStore(c) ==
    /\ ~panicked
    /\ cPc[c] = "shut_store"
    /\ globalShipper' = Nil
    /\ cPc' = [cPc EXCEPT ![c] = "idle"]
    /\ cOld' = [cOld EXCEPT ![c] = Nil]
    /\ UNCHANGED <<globalConfig, shipperVars, emitVars, flushVars, cCfg, cNew,
                   stopSeen, stopReturned, panicked, quota, dataVars>>

\* Emit, lines 112-139: without a Config or without a shipper nothing
\* reaches a shipper (nor does an event whose JSON for stdout fails);
\* otherwise the new event is about to be sent to the shipper that was loaded
EmitBegin(p) ==
    /\ ~panicked
    /\ ePc[p] = "idle"
    /\ IF globalConfig = NilConfig \/ globalShipper = Nil
       THEN UNCHANGED <<ePc, eS>>
       ELSE /\ nextEv + Cardinality({q \in Producers : ePc[q] = "send"}) < quota.events
            /\ eS' = [eS EXCEPT ![p] = globalShipper]
            /\ ePc' = [ePc EXCEPT ![p] = "send"]
    /\ UNCHANGED <<globalConfig, globalShipper, shipperVars, nextEv, accepted,
                   dropped, flushVars, callerVars, panicked, quota, dataVars>>

\* mutant of FlushBegin: the caller of Flush does the doFlush itself
FlushBegin_DirectFlush(f) ==
    /\ ~panicked
    /\ fPc[f] = "idle"
    /\ IF globalShipper = Nil
       THEN UNCHANGED <<fPc, fS, fSeen, fLive, fBuf, events, batch>>
       ELSE /\ fS' = [fS EXCEPT ![f] = globalShipper]
            /\ fSeen' = [fSeen EXCEPT ![f] = accepted[globalShipper]]
            /\ fBuf' = [fBuf EXCEPT ![f] = Range(events[globalShipper])]
            /\ fLive' = [fLive EXCEPT ![f] =
                            runPc[globalShipper] \notin {"new", "exited"}]
            /\ fPc' = [fPc EXCEPT ![f] = "select"]
            /\ TakeBatch(globalShipper, events[globalShipper])
    /\ UNCHANGED <<globalConfig, globalShipper, allocated, cfg, eventsCh,
                   stopCh, doneCh, runPc, flushDone, shipped, attempts, prev, emitVars,
                   fDone, callerVars, panicked, quota, dataVars>>

\* Flush, globalShipper.Load() and the entry of flush: done is made
FlushBegin(f) ==
    /\ ~panicked
    /\ fPc[f] = "idle"
    /\ IF globalShipper = Nil
       THEN UNCHANGED <<fPc, fS, fSeen, fLive, fBuf>>
       ELSE /\ fS' = [fS EXCEPT ![f] = globalShipper]
            /\ fSeen' = [fSeen EXCEPT ![f] = accepted[globalShipper]]
            /\ fBuf' = [fBuf EXCEPT ![f] = Range(events[globalShipper])]
            /\ fLive' = [fLive EXCEPT ![f] =
                            runPc[globalShipper] \notin {"new", "exited"}]
            /\ fPc' = [fPc EXCEPT ![f] = "select"]
    /\ UNCHANGED <<globalConfig, globalShipper, shipperVars, emitVars, fDone,
                   callerVars, panicked, quota, dataVars>>

\* ------------------------------------------------------------ context.go
WithJobID(c, jobID) == [c EXCEPT !.JobID = jobID]

WithRequestID(c, requestID) == [c EXCEPT !.RequestID = requestID]

WithTraceID(c, traceID) == [c EXCEPT !.TraceID = traceID]

WithUserID(c, userID) == [c EXCEPT !.UserID = userID]

JobID(c) == c.JobID

RequestID(c) == c.RequestID

TraceID(c) == c.TraceID

UserID(c) == c.UserID

\* the application derives a context with one more value ("" stands for a
\* value that reads as missing) while it is not inside Emit or Middleware
BuildContext ==
    /\ ~panicked
    /\ call.op = "none"
    /\ \/ \E v \in {"", "ctx-job"} : ctx' = WithJobID(ctx, v)
       \/ \E v \in {"", "ctx-req"} : ctx' = WithRequestID(ctx, v)
       \/ \E v \in {"", "ctx-trace"} : ctx' = WithTraceID(ctx, v)
       \/ \E v \in {"", "ctx-user"} : ctx' = WithUserID(ctx, v)
    /\ UNCHANGED <<globalConfig, globalShipper, shipperVars, emitVars, flushVars,
                   callerVars, panicked, quota, call, event, stdout, handlerCtx,
                   respHeader>>

\* ------------------------------------------------------------ event.go
\* time.Now().UTC().Format(time.RFC3339Nano): some non-empty string
Now == "2026-02-06T12:00:00.000000001Z"

\* mutant of newEvent: missing request and trace IDs get a placeholder
newEvent_Placeholders(c, name, data, level) ==
    [Timestamp |-> Now,
     Service |-> globalConfig.Service,
     Env |-> globalConfig.Env,
     JobID |-> IF JobID(c) = "" THEN globalConfig.JobID ELSE JobID(c),
     RequestID |-> IF RequestID(c) = "" THEN "unknown" ELSE RequestID(c),
     TraceID |-> IF TraceID(c) = "" THEN "unknown" ELSE TraceID(c),
     Name |-> name,
     Level |-> IF level = "" THEN "info" ELSE level,
     Data |-> data]

\* newEvent: IDs from the context, the job ID falls back to the Config;
\* nothing is generated; the level defaults to "info"
newEvent(c, name, data, level) ==
    LET cfgp == globalConfig
    IN  [Timestamp |-> Now,
         Service |-> IF cfgp # NilConfig THEN cfgp.Service ELSE "",
         Env |-> IF cfgp # NilConfig THEN cfgp.Env ELSE "",
         JobID |-> IF JobID(c) = "" /\ cfgp # NilConfig THEN cfgp.JobID ELSE JobID(c),
         RequestID |-> RequestID(c),
         TraceID |-> TraceID(c),
         Name |-> name,
         Level |-> IF level = "" THEN "info" ELSE level,
         Data |-> data]

\* the struct tags of Event: field, JSON key, omitempty
EventFields ==
    {<<"Timestamp", "timestamp", FALSE>>, <<"Service", "service", FALSE>>,
     <<"Env", "env", TRUE>>, <<"JobID", "job_id", TRUE>>,
     <<"RequestID", "request_id", TRUE>>, <<"TraceID", "trace_id", TRUE>>,
     <<"Name", "name", FALSE>>, <<"Level", "level", FALSE>>,
     <<"Data", "data", TRUE>>}

\* ToJSON: the JSON object as its set of <<key, value>> members; a field
\* tagged omitempty is left out when it is empty (Data: when it is nil)
ToJSON(e) ==
    {<<f[2], e[f[1]]>> : f \in {g \in EventFields : ~g[3] \/ e[g[1]] # ""}}

\* ------------------------------------------------- monitor.go, Emit's event
\* Emit, lines 118-122: the level is "info" unless an option sets it
Level(opts) == IF opts = <<>> THEN "info" ELSE opts[Len(opts)]

\* Emit, lines 112-117: globalConfig.Load(); before Init Emit returns at once
EmitLoad(opts, data) ==
    /\ ~panicked
    /\ call.op = "none"
    /\ IF globalConfig = NilConfig
       THEN UNCHANGED call
       ELSE call' = [NoCall EXCEPT !.op = "Emit", !.cfg = globalConfig,
                                   !.opts = opts, !.data = data]
    /\ UNCHANGED <<globalConfig, globalShipper, shipperVars, emitVars, flushVars,
                   callerVars, panicked, quota, ctx, event, stdout, handlerCtx,
                   respHeader>>

\* Emit, lines 125-141: newEvent (which loads globalConfig again), the line
\* on stdout unless disabled, and no shipper to send to (the path to an
\* active shipper is EmitBegin and Send)
EmitWrite ==
    /\ ~panicked
    /\ call.op = "Emit"
    /\ globalShipper = Nil
    /\ event' = newEvent(ctx, "event.name", call.data, Level(call.opts))
    /\ stdout' = IF call.cfg.DisableStdout THEN {} ELSE ToJSON(event')
    /\ call' = [call EXCEPT !.op = "Emitted"]
    /\ UNCHANGED <<globalConfig, globalShipper, shipperVars, emitVars, flushVars,
                   callerVars, panicked, quota, ctx, handlerCtx, respHeader>>

\* ------------------------------------------------------------ middleware.go
\* mutant of Middleware: the incoming headers are ignored
Middleware_AlwaysGenerate(c, h, rid, tid) ==
    [ctx |-> WithJobID(WithTraceID(WithRequestID(c, rid), tid),
                       IF JobID(c) = "" THEN globalConfig.JobID ELSE JobID(c)),
     header |-> [RequestID |-> rid, TraceID |-> tid]]

\* Middleware for a request with context c and headers h; rid and tid are
\* what generateShortID and generateID return when they are called.  The
\* result is the context handed to the next handler and the response headers
Middleware(c, h, rid, tid) ==
    LET requestID == IF h.RequestID = "" THEN rid ELSE h.RequestID
        traceID == IF h.TraceID = "" THEN tid ELSE h.TraceID
        c1 == WithTraceID(WithRequestID(c, requestID), traceID)
        jobID == IF JobID(c1) = "" /\ globalConfig # NilConfig
                 THEN globalConfig.JobID ELSE JobID(c1)
    IN  [ctx |-> IF jobID # "" THEN WithJobID(c1, jobID) ELSE c1,
         header |-> [RequestID |-> requestID, TraceID |-> traceID]]

\* one request passes through Middleware
Serve(h) ==
    /\ ~panicked
    /\ call.op = "none"
    /\ \E rid, tid \in GeneratedIds :
          /\ handlerCtx' = Middleware(ctx, h, rid, tid).ctx
          /\ respHeader' = Middleware(ctx, h, rid, tid).header
    /\ call' = [NoCall EXCEPT !.op = "Served", !.header = h]
    /\ UNCHANGED <<globalConfig, globalShipper, shipperVars, emitVars, flushVars,
                   callerVars, panicked, quota, ctx, event, stdout>>

\* Emit has returned, or the handler behind Middleware has
Return ==
    /\ ~panicked
    /\ call.op \in {"Emitted", "Served"}
    /\ call' = NoCall
    /\ event' = NoEvent
    /\ stdout' = {}
    /\ handlerCtx' = EmptyContext
    /\ respHeader' = NoHeader
    /\ UNCHANGED <<globalConfig, globalShipper, shipperVars, emitVars, flushVars,
                   callerVars, panicked, quota, ctx>>

Next ==
    \/ \E p \in Producers : EmitBegin(p) \/ Send(p)
    \/ \E f \in Flushers : FlushBegin(f) \/ FlushStopped(f) \/ FlushReturn(f)
    \/ \E s \in Shippers :
          \/ RunEvent(s) \/ RunTick(s) \/ RunStop(s) \/ RunDrain(s) \/ Deliver(s)
          \/ \E f \in Flushers : RunFlush(s, f)
    \/ \E c \in Callers :
          \/ \E c0 \in Configs : InitBegin(c, c0)
          \/ InitFail(c) \/ StopClose(c) \/ StopWait(c) \/ InitStoreConfig(c)
          \/ InitStoreShipper(c) \/ Start(c)
          \/ ShutdownBegin(c) \/ ShutdownStore(c)

Spec == Init /\ [][Next]_vars

LifecycleSpec == InitLifecycle /\ [][Next]_vars

\* one producer, one flusher, one goroutine calling Init and Shutdown
InitFair == InitWith({1}, {1}, {1}, 1, MaxEvents)

\* Scheduling of the goroutines of InitFair and of the shipper they build: a
\* select picks among its ready cases at random, so a case that is ready
\* again and again is taken (SF); the ticker keeps firing; a delivery attempt
\* ends (the http.Client has a 30 s timeout); a goroutine that can go on
\* does (WF)
Fairness ==
    /\ \A s \in {1} :
          /\ SF_vars(RunEvent(s))
          /\ SF_vars(RunTick(s))
          /\ WF_vars(Deliver(s))
          /\ \A f \in {1} : SF_vars(RunFlush(s, f))
    /\ \A f \in {1} : WF_vars(FlushStopped(f)) /\ WF_vars(FlushReturn(f))
    /\ \A c \in {1} : WF_vars(Start(c))

FairSpec == InitFair /\ [][Next]_vars /\ Fairness

\* one goroutine calls Emit or Flush and one calls Init and Shutdown; the
\* transport may fail or answer with any class of status, and any of the
\* events may fail to serialize
InitTransport ==
    \/ \E bad \in SUBSET EventIds :
          InitScenario({1}, {}, {1}, 1, MaxEvents, Results, bad)
    \/ InitScenario({}, {1}, {1}, 1, 0, Results, {})

TransportSpec == InitTransport /\ [][Next]_vars

\* Scheduling while a stop() is in progress: the goroutine that called stop
\* goes on (WF); the select of the loop picks among its ready cases at
\* random, so the stopCh case, ready whenever the loop is back at its select,
\* is taken (SF); the drain loop goes on and a delivery attempt ends (the
\* http.Client has a 30 s timeout).  Nothing is assumed about the producers
\* and the flushers: they may call at any time or not at all.
StopFairness ==
    /\ \A c \in {1} : WF_vars(StopClose(c)) /\ WF_vars(StopWait(c))
    /\ \A s \in {1} :
          /\ SF_vars(RunStop(s))
          /\ WF_vars(RunDrain(s))
          /\ WF_vars(Deliver(s))

StopFairSpec == InitFair /\ [][Next]_vars /\ StopFairness

\* the values of the X-Request-Id and X-Trace-Id headers of a request
Headers == [RequestID : {"", "hdr-req"}, TraceID : {"", "hdr-trace"}]

\* one goroutine calls Init, the application builds contexts, calls Emit and
\* serves requests through Middleware; no shipper is configured
InitEvent == InitWith({}, {}, {1}, 0, 0)

EventNext ==
    \/ \E c0 \in EventConfigs : InitBegin(1, c0)
    \/ InitFail(1) \/ InitStoreConfig(1) \/ InitStoreShipper(1)
    \/ BuildContext
    \/ \E opts \in {<<>>, <<"">>, <<"error">>}, data \in {"", "data"} : EmitLoad(opts, data)
    \/ EmitWrite
    \/ \E h \in Headers : Serve(h)
    \/ Return

EventSpec == InitEvent /\ [][EventNext]_vars

\* ---------------------------------------------------------------- claims
\* the events of s in batches whose delivery attempt has completed
Delivered(s) == Range(Flatten(shipped[s]))

\* the events of s in a batch handed to the transport, completed or not
Attempted(s) == Delivered(s) \cup Range(batch[s])

\* a delivery attempt of s is in progress
Delivering(s) == batch[s] # <<>>

\* the background loop of s has been started and has not exited
Running(s) == runPc[s] \notin {"none", "new", "exited"}

\* C1: when flush() returns on a started shipper that has not been stopped, every
\* event send() accepted before flush() was called is in a batch whose
\* delivery attempt has completed
C1_FlushDeliversAccepted ==
    [][\A f \in Flushers :
          (fPc[f] = "wait" /\ fPc'[f] = "idle" /\ fLive[f] /\ ~stopCh[fS[f]])
              => fSeen[f] \subseteq Delivered(fS[f])]_vars

\* C2: when stop() has returned, every event send() accepted before stop()
\* was called is in a batch whose delivery attempt has completed
C2_StopFlushesRemaining ==
    \A c \in Callers :
        cPc[c] \in {"init_cfg", "init_ship", "init_start", "shut_store"} /\ cOld[c] # Nil
            => stopSeen[cOld[c]] \subseteq Delivered(cOld[c])

\* C2 witness: stop() has returned after a final flush that took the events
\* of both the buffer and the intake queue
C2_Witness ==
    \E c \in Callers :
        /\ cPc[c] = "shut_store"
        /\ stopSeen[cOld[c]] # {}
        /\ LET bs == shipped[cOld[c]]
           IN  bs # <<>> /\ Len(bs[Len(bs)]) > cfg[cOld[c]].BatchSize
                         /\ Range(bs[Len(bs)]) \subseteq stopSeen[cOld[c]]

\* C3: once stop() has returned on a shipper no delivery attempt is in
\* progress on it and none starts, whatever send() and flush() calls follow
C3_NoDeliveryAfterStop ==
    \A s \in stopReturned : ~Delivering(s) /\ ~Running(s)

\* C3 witness: send() has put an event on the channel of a shipper on which
\* stop() had returned
C3_Witness ==
    \E s \in stopReturned : Range(eventsCh[s]) \ stopSeen[s] # {}

\* the effect of send() of event e on shipper s
SendEffect(s, e) ==
    /\ events' = events
    /\ IF Len(eventsCh[s]) < Capacity(s)
       THEN /\ eventsCh' = [eventsCh EXCEPT ![s] = Append(eventsCh[s], e)]
            /\ dropped' = dropped
       ELSE /\ eventsCh' = eventsCh
            /\ dropped' = dropped \cup {e}

\* C4: send() never blocks in any shipper state: with free capacity the event
\* is appended at the tail of the intake queue, otherwise it is dropped with
\* the diagnostic and queue and buffer are unchanged
C4_SendNeverBlocks ==
    /\ [](\A p \in Producers : (ePc[p] = "send" /\ ~panicked) => ENABLED Send(p))
    /\ [][\A p \in Producers :
             (ePc[p] = "send" /\ ePc'[p] = "idle") => SendEffect(eS[p], nextEv')]_vars

\* C4 witness: an event was dropped on a full queue of a shipper whose loop
\* has exited
C4_Witness ==
    \E s \in Shippers :
        /\ runPc[s] = "exited"
        /\ Len(eventsCh[s]) = Capacity(s)
        /\ dropped # {}

\* C5: every batch handed to the transport has at most BatchSize events
C5_BatchAtMostBatchSize ==
    \A s \in Shippers :
        /\ Len(batch[s]) <= cfg[s].BatchSize
        /\ \A i \in 1..Len(shipped[s]) : Len(shipped[s][i]) <= cfg[s].BatchSize

\* C8: send() on a shipper on which stop() has returned leaves the intake
\* queue and the buffer unchanged and has no observable effect
C8_SendAfterStopNoOp ==
    [][\A p \in Producers :
          (ePc[p] = "send" /\ ePc'[p] = "idle" /\ eS[p] \in stopReturned)
              => /\ eventsCh' = eventsCh
                 /\ events' = events
                 /\ dropped' = dropped]_vars

\* C9: the loop of the shipper an Init call found active has exited, its
\* final flush done, before the new shipper's loop is started; the new
\* shipper is another instance with an empty queue and buffer, and a loop
\* that has exited never runs again
C9_OldStoppedBeforeNewStarts ==
    /\ [](\A s \in Shippers :
            (Running(s) \/ runPc[s] = "exited") /\ prev[s] # Nil
                => /\ runPc[prev[s]] = "exited"
                   /\ ~Delivering(prev[s])
                   /\ events[prev[s]] = <<>>
                   /\ prev[s] # s)
    /\ [][\A s \in Shippers :
             /\ runPc[s] = "exited" => runPc'[s] = "exited"
             /\ (runPc[s] = "none" /\ runPc'[s] # "none")
                    => runPc'[s] = "new" /\ eventsCh'[s] = <<>> /\ events'[s] = <<>>]_vars

\* C9 witness: the loop of a shipper built by an Init that found another
\* shipper active is running, and the old shipper had delivered a batch
C9_Witness ==
    \E s \in Shippers :
        Running(s) /\ prev[s] # Nil /\ shipped[prev[s]] # <<>>

\* C10: at most one shipper background loop is running
C10_AtMostOneLoop ==
    Cardinality({s \in Shippers : Running(s)}) <= 1

\* C6: under fair scheduling every event send() accepted on a started
\* shipper is eventually in a batch handed to the transport, unless the
\* shipper is stopped; an event dropped on a full queue is never in a batch
C6_AcceptedEventuallyDelivered ==
    /\ [](\A s \in Shippers : dropped \cap (Attempted(s) \cup accepted[s]) = {})
    /\ \A e \in EventIds :
          (\E s \in Shippers : e \in accepted[s] /\ Running(s))
              ~> (\E s \in Shippers : e \in Attempted(s) \/ (e \in accepted[s] /\ stopCh[s]))

\* C6 witness: an event was dropped on a full queue and the events accepted
\* before it have all been delivered by a shipper that was not stopped
C6_Witness ==
    \E s \in Shippers :
        /\ dropped # {}
        /\ ~stopCh[s]
        /\ accepted[s] # {}
        /\ accepted[s] \subseteq Delivered(s)

\* C7: a flush() call always returns, also when it races with stop(); while
\* it waits for done a running loop is delivering its batch; called on a
\* shipper whose loop has exited it returns without a delivery attempt
C7_FlushReturns ==
    /\ [](\A f \in Flushers :
            /\ (fPc[f] = "wait" /\ ~fDone[f])
                   => runPc[fS[f]] = "deliver_flush" /\ flushDone[fS[f]] = f
            /\ (fPc[f] = "select" /\ runPc[fS[f]] = "exited")
                   => ~Delivering(fS[f]) /\ ENABLED FlushStopped(f))
    /\ \A f \in Flushers : (fPc[f] \in {"select", "wait"}) ~> (fPc[f] = "idle")

\* C7 witness: flush() is at its select on a shipper whose loop has exited
C7_Witness ==
    \E f \in Flushers : fPc[f] = "select" /\ runPc[fS[f]] = "exited"

\* the positions of an Init call
InitPcs == {"init_err", "init_close", "init_wait", "init_cfg", "init_ship", "init_start"}

\* C11: an Init call whose Config has an empty Service returns
\* ErrServiceRequired, and only such a call does; no step of that call
\* changes the stored Config, the shipper handle or any shipper (none is
\* stopped, none is built)
C11_InitWithoutServiceChangesNothing ==
    /\ [](\A c \in Callers :
            cPc[c] \in InitPcs => (cCfg[c].Service = "" <=> cPc[c] = "init_err"))
    /\ [][\A c \in Callers :
             ((cPc[c] = "init_err" \/ cPc'[c] = "init_err") /\ cPc'[c] # cPc[c])
                 => <<globalConfig, globalShipper, shipperVars, stopSeen, stopReturned>>'
                      = <<globalConfig, globalShipper, shipperVars, stopSeen, stopReturned>>]_vars

\* C11 witness: Init is returning ErrServiceRequired while a Config is stored
\* and the loop of the active shipper is running
C11_Witness ==
    \E c \in Callers :
        /\ cPc[c] = "init_err"
        /\ globalConfig # NilConfig
        /\ globalShipper # Nil
        /\ Running(globalShipper)

\* the last Init that returned had no IngestURL, and no Init call is between
\* its two stores
NoShipperConfigured ==
    /\ globalConfig # NilConfig
    /\ globalConfig.IngestURL = ""
    /\ \A c \in Callers : cPc[c] # "init_ship"

\* C12: after an Init without IngestURL (Init and Shutdown being called from
\* one goroutine) the shipper handle is nil, the loop of every shipper built
\* before has exited and no delivery attempt is in progress; Emit, Flush and
\* Shutdown can always take their step, and that step changes nothing
C12_NoShipperWithoutIngestURL ==
    NoShipperConfigured =>
        /\ globalShipper = Nil
        /\ \A s \in 1..allocated : runPc[s] = "exited" /\ ~Delivering(s)
        /\ \A p \in Producers :
              (ePc[p] = "idle" /\ ~panicked)
                  => ENABLED EmitBegin(p) /\ ~ENABLED (EmitBegin(p) /\ vars' # vars)
        /\ \A f \in Flushers :
              (fPc[f] = "idle" /\ ~panicked)
                  => ENABLED FlushBegin(f) /\ ~ENABLED (FlushBegin(f) /\ vars' # vars)
        /\ \A c \in Callers :
              (cPc[c] = "idle" /\ ~panicked)
                  => ENABLED ShutdownBegin(c) /\ ~ENABLED (ShutdownBegin(c) /\ vars' # vars)

\* C12 witness: an Init without IngestURL has returned after it stopped a
\* shipper that had delivered a batch
C12_Witness ==
    /\ NoShipperConfigured
    /\ \A c \in Callers : cPc[c] \in {"idle", "off"}
    /\ allocated > 0
    /\ \E s \in 1..allocated : shipped[s] # <<>>

\* the keys of a JSON object
Keys(json) == {kv[1] : kv \in json}

\* C13: every event Emit produces after Init has a non-empty job_id,
\* request_id, trace_id, service and timestamp, in the Event and in the
\* record printed on stdout
C13_EmittedEventHasAllIds ==
    call.op = "Emitted" =>
        /\ \A f \in {"JobID", "RequestID", "TraceID", "Service", "Timestamp"} :
              event[f] # ""
        /\ ~call.cfg.DisableStdout =>
              \A k \in {"job_id", "request_id", "trace_id", "service", "timestamp"} :
                  \E kv \in stdout : kv[1] = k /\ kv[2] # ""

\* C14: the record Emit prints has user_id with the value WithUserID set on
\* the context and no user_id when none was set, and likewise request_id and
\* trace_id, and job_id (which falls back to the Config)
C14_IdsCarriedIndependently ==
    (call.op = "Emitted" /\ ~call.cfg.DisableStdout) =>
        /\ UserID(ctx) # "" => <<"user_id", UserID(ctx)>> \in stdout
        /\ UserID(ctx) = "" => "user_id" \notin Keys(stdout)
        /\ RequestID(ctx) # "" => <<"request_id", RequestID(ctx)>> \in stdout
        /\ RequestID(ctx) = "" => "request_id" \notin Keys(stdout)
        /\ TraceID(ctx) # "" => <<"trace_id", TraceID(ctx)>> \in stdout
        /\ TraceID(ctx) = "" => "trace_id" \notin Keys(stdout)
        /\ JobID(ctx) # "" => <<"job_id", JobID(ctx)>> \in stdout

C16_MiddlewareIds ==
    [][(call.op = "none" /\ call'.op = "Served") =>
          LET h == call'.header
          IN  /\ IF h.RequestID # "" THEN RequestID(handlerCtx') = h.RequestID
                 ELSE RequestID(handlerCtx') \in GeneratedIds
              /\ IF h.TraceID # "" THEN TraceID(handlerCtx') = h.TraceID
                 ELSE TraceID(handlerCtx') \in GeneratedIds
              /\ RequestID(handlerCtx') # "" /\ TraceID(handlerCtx') # ""
              /\ respHeader' = [RequestID |-> RequestID(handlerCtx'),
                                TraceID |-> TraceID(handlerCtx')]
              /\ JobID(handlerCtx') =
                     IF JobID(ctx) # "" THEN JobID(ctx) ELSE globalConfig.JobID
              /\ UserID(handlerCtx') = UserID(ctx)]_vars

\* C16 witness: a request with X-Trace-Id and without X-Request-Id, whose
\* context has a request ID and no job ID, has reached the handler with a
\* generated request ID and the job ID of the Config
C16_Witness ==
    /\ call.op = "Served"
    /\ call.header = [RequestID |-> "", TraceID |-> "hdr-trace"]
    /\ RequestID(ctx) = "ctx-req"
    /\ JobID(ctx) = ""
    /\ RequestID(handlerCtx) \in GeneratedIds
    /\ TraceID(handlerCtx) = "hdr-trace"
    /\ JobID(handlerCtx) = "cfg-job"
    /\ respHeader.RequestID = RequestID(handlerCtx)

\* the batches of s handed to the transport so far, the one in delivery last
Batches(s) == shipped[s] \o (IF batch[s] = <<>> THEN <<>> ELSE <<batch[s]>>)

\* the number of events the loop of s has received from the intake queue
Consumed(s) == Len(Flatten(Batches(s))) + Len(events[s])

\* no batch of s came from a tick, a flush request or the final flush of a
\* shipper that is not stopped: those are shorter than BatchSize
NoTrigger(s) ==
    \A i \in 1..Len(Batches(s)) : Len(Batches(s)[i]) = cfg[s].BatchSize

\* the loop of s is inside doFlush with a batch taken
DeliverPcs == {"deliver_loop", "deliver_flush", "deliver_final"}

\* C17: the loop waits at its select with fewer than BatchSize buffered
\* events; the receive that makes the buffer reach BatchSize hands exactly
\* the buffered events and the received one to the transport as one batch
\* and leaves the buffer empty, any other receive only appends; no event is
\* received while a batch is being delivered.  So without tick, flush
\* request and stop, n received events make n div BatchSize batches and
\* leave n mod BatchSize events buffered
C17_SizeTriggeredFlush ==
    /\ [](\A s \in 1..allocated :
            /\ runPc[s] = "select" => Len(events[s]) < cfg[s].BatchSize
            /\ (~stopCh[s] /\ NoTrigger(s))
                   => /\ Len(Batches(s)) = Consumed(s) \div cfg[s].BatchSize
                      /\ Len(events[s]) = Consumed(s) % cfg[s].BatchSize)
    /\ [][\A s \in 1..allocated :
             /\ (runPc[s] = "select" /\ eventsCh[s] # <<>>
                     /\ eventsCh'[s] = Tail(eventsCh[s]))
                    => IF Len(events[s]) + 1 >= cfg[s].BatchSize
                       THEN /\ batch'[s] = Append(events[s], Head(eventsCh[s]))
                            /\ Len(batch'[s]) = cfg[s].BatchSize
                            /\ events'[s] = <<>>
                            /\ runPc'[s] = "deliver_loop"
                       ELSE /\ events'[s] = Append(events[s], Head(eventsCh[s]))
                            /\ batch'[s] = <<>>
                            /\ runPc'[s] = "select"
             /\ runPc[s] \in DeliverPcs
                    => /\ events'[s] = <<>>
                       /\ Len(eventsCh'[s]) >= Len(eventsCh[s])
                       /\ SubSeq(eventsCh'[s], 1, Len(eventsCh[s])) = eventsCh[s]]_vars

\* C17 witness: with BatchSize 2 and three events received, a shipper that
\* is not stopped has delivered one batch of two and holds the third event
\* in its buffer
C17_Witness ==
    \E s \in 1..allocated :
        /\ cfg[s].BatchSize = 2
        /\ ~stopCh[s]
        /\ Len(shipped[s]) = 1
        /\ Len(shipped[s][1]) = 2
        /\ Len(events[s]) = 1
        /\ batch[s] = <<>>

\* C18: a tick that finds k buffered events, 0 < k < BatchSize, hands exactly
\* these to the transport as one batch and leaves the buffer empty; the
\* tick can always be taken; a tick, a flush request or the final flush that
\* finds the buffer empty starts no delivery attempt: no attempt is ever
\* made with an empty batch
C18_TimerTriggeredFlush ==
    /\ [](\A s \in 1..allocated :
            /\ runPc[s] \in DeliverPcs => batch[s] # <<>>
            /\ \A i \in 1..Len(shipped[s]) : shipped[s][i] # <<>>
            /\ (runPc[s] = "select" /\ ~panicked) => ENABLED RunTick(s)
            /\ (runPc[s] = "select" /\ events[s] = <<>> /\ ~panicked)
                   => ~ENABLED (RunTick(s) /\ vars' # vars))
    /\ [][\A s \in 1..allocated :
             /\ (runPc[s] = "select" /\ runPc'[s] = "deliver_loop"
                     /\ eventsCh'[s] = eventsCh[s])
                    => /\ events[s] # <<>>
                       /\ Len(events[s]) < cfg[s].BatchSize
                       /\ batch'[s] = events[s]
                       /\ events'[s] = <<>>
             /\ \A f \in Flushers :
                   (fS[f] = s /\ fPc[f] = "select" /\ fPc'[f] = "wait" /\ events[s] = <<>>)
                       => fDone'[f] /\ batch'[s] = <<>> /\ runPc'[s] = "select"
             /\ (runPc[s] = "drain" /\ runPc'[s] # "drain" /\ events[s] = <<>>)
                    => runPc'[s] = "exited" /\ batch'[s] = <<>> /\ shipped'[s] = shipped[s]]_vars

\* C18 witness: a tick has taken one buffered event of a shipper with
\* BatchSize 2 as a batch
C18_Witness ==
    \E s \in 1..allocated :
        /\ cfg[s].BatchSize = 2
        /\ runPc[s] = "deliver_loop"
        /\ Len(batch[s]) = 1
        /\ events[s] = <<>>

\* C19: when flush() returns after the loop took its request, the events
\* that were in the buffer when it was called are all in one batch whose
\* delivery attempt has completed; if these are all the events the shipper
\* ever accepted, exactly one batch was delivered, made of exactly them, and
\* no attempt is in progress
C19_ConcurrentFlushes ==
    [][\A f \in Flushers :
          (fPc[f] = "wait" /\ fPc'[f] = "idle") =>
              LET s == fS[f]
              IN  /\ fBuf[f] \subseteq Delivered(s)
                  /\ fBuf[f] # {}
                        => \E i \in 1..Len(shipped[s]) : fBuf[f] \subseteq Range(shipped[s][i])
                  /\ (fBuf[f] # {} /\ accepted[s] = fBuf[f])
                        => /\ Len(shipped[s]) = 1
                           /\ Range(shipped[s][1]) = fBuf[f]
                           /\ batch[s] = <<>>]_vars

\* C19 witness: two flush() calls made while the same events were buffered,
\* fewer than BatchSize and all the shipper accepted, are both about to
\* return and one batch has been delivered
C19_Witness ==
    \E f1, f2 \in Flushers :
        /\ f1 # f2
        /\ fS[f1] = fS[f2]
        /\ fPc[f1] = "wait" /\ fDone[f1]
        /\ fPc[f2] = "wait" /\ fDone[f2]
        /\ fBuf[f1] # {}
        /\ fBuf[f1] = fBuf[f2]
        /\ accepted[fS[f1]] = fBuf[f1]
        /\ Cardinality(fBuf[f1]) < cfg[fS[f1]].BatchSize
        /\ Len(shipped[fS[f1]]) = 1

\* the events of s in the intake queue, the buffer, the batch in delivery
\* and the batches delivered, in this order
Holding(s) == eventsCh[s] \o events[s] \o batch[s] \o Flatten(shipped[s])

\* C20: every event send() accepted on a shipper is at exactly one place:
\* once in the intake queue, or once in the buffer, or once in one batch
\* handed to the transport; no event is accepted by two shippers
C20_NoDuplication ==
    /\ \A s \in Shippers :
          /\ \A i, j \in 1..Len(Holding(s)) : Holding(s)[i] = Holding(s)[j] => i = j
          /\ Range(Holding(s)) = accepted[s]
    /\ \A s, t \in Shippers : s # t => accepted[s] \cap accepted[t] = {}

\* C20 witness: a shipper holds one event in the queue, one in the buffer
\* and has delivered one
C20_Witness ==
    \E s \in Shippers :
        /\ eventsCh[s] # <<>>
        /\ events[s] # <<>>
        /\ shipped[s] # <<>>

\* ---------------------------------------------------------------- C22
\* a sequence of events lists them in the order send() accepted them
\* (events are numbered when send() puts them on the channel)
InAcceptanceOrder(q) == \A i, j \in 1..Len(q) : i < j => q[i] < q[j]

\* C22: delivery preserves intake order: the batches of one shipper, put one
\* after the other in the order they were attempted, followed by the batch
\* being delivered, the buffer and the queue, list the accepted events of
\* that shipper exactly in the order send() accepted them
C22_DeliveryPreservesIntakeOrder ==
    \A s \in Shippers :
        LET q == Flatten(shipped[s]) \o batch[s] \o events[s] \o eventsCh[s]
        IN  /\ InAcceptanceOrder(q)
            /\ Range(q) = accepted[s]

\* three events of one shipper went out in two batches, the last of them
\* collected by the drain loop
C22_Witness ==
    \E s \in Shippers :
        /\ Len(shipped[s]) = 2
        /\ Len(Flatten(shipped[s])) = 3
        /\ runPc[s] = "exited"

\* ---------------------------------------------------------------- C23
\* the calls of stop() on shipper s that are in progress
InStop(s) ==
    {c \in Callers : /\ cOld[c] = s
                     /\ cPc[c] \in {"init_close", "shut_close", "init_wait", "shut_wait"}}

\* the number of stop() calls made on shipper s so far
StopCalls(s) == Cardinality(InStop(s)) + (IF s \in stopReturned THEN 1 ELSE 0)

\* C23: stop() is invoked at most once and start() at most once on any
\* shipper under every interleaving of Init and Shutdown, so the stop channel
\* is never closed twice (no close of a closed channel, which panics)
C23_StopAndStartAtMostOnce ==
    /\ [](~panicked /\ \A s \in Shippers : StopCalls(s) <= 1)
    /\ [][\A c \in Callers :
             cPc[c] = "init_start" /\ cPc'[c] # "init_start"
                 => runPc[cNew[c]] = "new"]_vars

\* ---------------------------------------------------------------- C24
\* C24: the intake queue of a shipper never holds more than 2 * BatchSize
\* events
C24_QueueBounded ==
    \A s \in Shippers : Len(eventsCh[s]) <= Capacity(s)

\* the queue of a running shipper is full and a send() has found it full
C24_Witness ==
    \E s \in 1..allocated :
        /\ cfg[s].BatchSize > 0
        /\ Len(eventsCh[s]) = Capacity(s)
        /\ dropped # {}

\* ---------------------------------------------------------------- C25
\* the lifecycle state of the engine whose loop is at position pc
Phase(pc) ==
    IF pc \in {"select", "deliver_loop", "deliver_flush"} THEN "running"
    ELSE IF pc \in {"drain", "deliver_final"} THEN "draining"
    ELSE IF pc = "exited" THEN "stopped"
    ELSE "created"

\* C25: the lifecycle of an engine is running, then draining, then stopped and
\* nothing else: it starts draining only by taking the stop signal; while
\* draining it takes no flush request and starts no timer flush; its one
\* final flush takes the whole buffer once the queue was found empty and is
\* the only batch of the drain; a stopped engine never changes again
C25_Lifecycle ==
    [][\A s \in Shippers :
        LET ph == Phase(runPc[s])
            ph2 == Phase(runPc'[s])
        IN  /\ ph # ph2 => <<ph, ph2>> \in {<<"created", "running">>,
                                            <<"running", "draining">>,
                                            <<"draining", "stopped">>}
            /\ ph = "running" /\ ph2 = "draining" => stopCh[s]
            /\ ph = "draining" =>
                  /\ \A f \in Flushers :
                        fPc[f] = "select" /\ fS[f] = s => fPc'[f] # "wait"
                  /\ runPc[s] = "drain" /\ runPc'[s] # "drain" =>
                        /\ eventsCh[s] = <<>>
                        /\ batch'[s] = events[s]
                        /\ events'[s] = <<>>
                  /\ runPc[s] = "drain" /\ runPc'[s] = "drain" =>
                        batch'[s] = batch[s]
                  /\ shipped'[s] # shipped[s] =>
                        runPc[s] = "deliver_final" /\ runPc'[s] = "exited"
            /\ ph = "stopped" =>
                  /\ events'[s] = events[s]
                  /\ batch'[s] = batch[s]
                  /\ shipped'[s] = shipped[s]]_vars

\* the final flush of a draining engine is in the transport while a flush
\* request for that engine is waiting to be taken
C25_Witness ==
    \E s \in Shippers, f \in Flushers :
        /\ runPc[s] = "deliver_final"
        /\ batch[s] # <<>>
        /\ fPc[f] = "select"
        /\ fS[f] = s

\* ---------------------------------------------------------------- C26
\* the step is one of the loop of shipper s and of no other goroutine: no
\* call of send() or stop() moves, and a call of flush() moves only by the
\* rendezvous on flushCh, in which the loop receives its request
LoopStep(s) ==
    /\ runPc[s] \in {"select", "drain", "deliver_loop", "deliver_flush",
                     "deliver_final"}
    /\ ePc' = ePc
    /\ cPc' = cPc
    /\ \A f \in Flushers :
          fPc'[f] # fPc[f] =>
              /\ runPc[s] = "select"
              /\ fS[f] = s
              /\ fPc[f] = "select"
              /\ fPc'[f] = "wait"

\* C26: only the background loop touches the buffer and triggers delivery:
\* the buffer, the batch in the transport and the list of attempts of a
\* shipper change only in steps of its loop, never in a step of send(),
\* flush() or stop(); a delivery attempt begins only when none is in
\* progress, and a loop is started only on a shipper that has none
C26_OnlyLoopTouchesBuffer ==
    [][/\ \A s \in Shippers :
             /\ (events'[s] # events[s] \/ batch'[s] # batch[s]
                     \/ shipped'[s] # shipped[s]) => LoopStep(s)
             /\ batch'[s] # batch[s] /\ batch'[s] # <<>> =>
                    /\ batch[s] = <<>>
                    /\ runPc[s] \in {"select", "drain"}
       /\ \A c \in Callers :
             cPc[c] = "init_start" /\ cPc'[c] # "init_start"
                 => runPc[cNew[c]] = "new" /\ runPc'[cNew[c]] = "select"]_vars

\* a delivery attempt is in progress while a send(), a flush() and a stop()
\* on the same shipper are in progress
C26_Witness ==
    \E s \in Shippers, p \in Producers, f \in Flushers, c \in Callers :
        /\ runPc[s] \in {"deliver_loop", "deliver_flush", "deliver_final"}
        /\ batch[s] # <<>>
        /\ ePc[p] = "send" /\ eS[p] = s
        /\ fPc[f] = "select" /\ fS[f] = s
        /\ cPc[c] \in {"init_wait", "shut_wait"} /\ cOld[c] = s

\* ---------------------------------------------------------------- C21
\* the last delivery attempt of shipper s that has ended
LastAttempt(s) == attempts[s][Len(attempts[s])]

\* C21: a delivery failure is terminal for the batch and not fatal for the
\* engine: the step in which an attempt ends with a transport error or a
\* status outside 2xx leaves batch and buffer empty and the queue as it is,
\* and the loop goes on as after a success (back to its select, or exits
\* when it was the final flush); no event of any attempt is ever again in
\* the queue, the buffer or another batch
C21_FailureTerminalNotFatal ==
    /\ [](\A s \in Shippers :
             InAcceptanceOrder(Flatten(shipped[s]) \o batch[s] \o events[s]
                                   \o eventsCh[s]))
    /\ [][\A s \in Shippers :
             Len(attempts'[s]) > Len(attempts[s]) =>
                 LET r == LastAttempt(s)'.result
                 IN  LastAttempt(s)'.sent /\ (r.err \/ r.status \notin 200..299) =>
                         /\ batch'[s] = <<>>
                         /\ events'[s] = <<>>
                         /\ eventsCh'[s] = eventsCh[s]
                         /\ runPc'[s] = IF runPc[s] = "deliver_final"
                                        THEN "exited" ELSE "select"
                         /\ ~panicked']_vars

\* an attempt failed on a transport error and a later attempt of the running
\* engine delivered a later event
C21_Witness ==
    \E s \in Shippers :
        /\ Len(attempts[s]) = 2
        /\ attempts[s][1].sent
        /\ attempts[s][1].result = TransportError
        /\ attempts[s][2].sent
        /\ attempts[s][2].result = Response(200)
        /\ runPc[s] = "select"

\* ---------------------------------------------------------------- C28
\* the attempt wrote a line about its outcome on stderr
Reported(a) ==
    \E k \in 1..Len(a.stderr) :
        a.stderr[k] \in {"failed to ship events", "ingest returned status"}

\* C28: an attempt that made a request is reported on stderr exactly when
\* the transport returned an error or the status of the response is outside
\* 2xx; a 2xx status is not reported
C28_ReportedExactlyOnNonSuccess ==
    \A s \in Shippers :
        \A i \in 1..Len(attempts[s]) :
            LET a == attempts[s][i]
            IN  a.sent =>
                    (Reported(a) <=> (a.result.err \/ a.result.status \notin 200..299))

\* ---------------------------------------------------------------- C29
\* the events of batch b that serialize, in batch order
Serializable(b) == SelectSeq(b, LAMBDA e : e \notin quota.bad)

InStopPcs == {"init_close", "shut_close", "init_wait", "shut_wait"}

AfterStopPcs == {"init_cfg", "shut_store"}

====
